---- MODULE Spec2Model ----
(***************************************************************************)
(* CombinedEnv (Source/Prototypes/PrototypeVer2_ps/combined_env.py): the   *)
(* multi-agent economics + diplomacy environment, as a state machine.      *)
(*                                                                         *)
(* Numbers.  The program computes in float64.  The model computes the same *)
(* expressions in fixed point: a real x is the integer x * SCALE, with     *)
(* SCALE = 200, so that the smallest quantum of the program, delta * 0.5 = *)
(* 0.005 (line 250), is one unit and every program constant is exact.      *)
(* Matrices are sequences of rows; agents and indices are 0..N-1 as in the *)
(* program, so row i of a matrix m is m[i+1].                              *)
(***************************************************************************)
EXTENDS Integers, Sequences, FiniteSets, TLC

\* ------------------------------------------------------------- bounds ---
\* Number of agents.  The program fixes N = 7 (line 14); the model is
\* parametric in N and is checked for a smaller N.
N == 3

\* The caller chooses its joint action freely during the first FreeSteps
\* steps of an episode and repeats its last joint action afterwards.
FreeSteps == 1

\* ------------------------------------------------- program constants ---
SCALE == 200

std_pgdp == 20
std_gdp == 20
std_ppl == 20
std_pl == 20
std_pne == 20
std_ne == 20
ex_int_degree == 1
delta == 2
kappa == 100
inf_target == 4
constant == 2
HORIZON == 100
RATE_MAX == 40

tau_values == <<190, 180, 170, 160, 150, 140, 130>>

Idx == 0 .. (N - 1)

possible_agents == [k \in 1 .. N |-> k - 1]

\* An attribute that has not been assigned yet.
NoValue == <<>>

\* --------------------------------------------------- fixed point ------
Max(a, b) == IF a >= b THEN a ELSE b

\* a * b / SCALE, rounded down, without forming a * b.
FMul(a, b) == a * (b \div SCALE) + (a * (b % SCALE)) \div SCALE

\* a / b in fixed point, rounded down.
FDiv(a, b) == (a * SCALE) \div b

RECURSIVE ExpSeries(_, _, _, _)
ExpSeries(x, k, term, acc) ==
    IF term = 0 \/ k > 60 THEN acc
    ELSE ExpSeries(x, k + 1, (term * x) \div (k * SCALE), acc + term)

\* e^x for x >= 0 by its power series.
ExpPos(x) == ExpSeries(x, 1, SCALE, 0)

ExpCalc(x) == IF x >= 0 THEN ExpPos(x) ELSE FDiv(SCALE, ExpPos(-x))

\* the arguments in [-8, 8] are tabulated
EXP_LIMIT == 8 * SCALE

ExpTable == [x \in (-EXP_LIMIT) .. EXP_LIMIT |-> ExpCalc(x)] @@ <<>>

\* np.exp
exp(x) == IF -EXP_LIMIT <= x /\ x <= EXP_LIMIT THEN ExpTable[x] ELSE ExpCalc(x)

\* Halley's iteration y <- y + 2 (x - e^y) / (x + e^y) for the logarithm.
RECURSIVE LogIter(_, _, _)
LogIter(x, y, k) ==
    IF k = 0 THEN y
    ELSE LET e == exp(y)
             d == FDiv(2 * (x - e), x + e)
         IN  IF d = 0 THEN y ELSE LogIter(x, y + d, k - 1)

LogCalc(x) == LogIter(x, 0, 12)

\* the arguments in (0, 100] are tabulated
LOG_LIMIT == 100 * SCALE

LogTable == [x \in 1 .. LOG_LIMIT |-> LogCalc(x)] @@ <<>>

\* np.log, for x > 0
log(x) == IF 1 <= x /\ x <= LOG_LIMIT THEN LogTable[x] ELSE LogCalc(x)

RECURSIVE SqrtIter(_, _)
SqrtIter(n, r) == IF r <= n \div r THEN r ELSE SqrtIter(n, (r + n \div r) \div 2)

\* Integer square root (rounded down).
ISqrt(n) == IF n <= 0 THEN 0 ELSE SqrtIter(n, n)

\* ------------------------------------------------ vectors, matrices ---
\* LET v == x IN F(v), with x evaluated once.
With(x, F(_)) == CHOOSE r \in {F(v) : v \in {x}} : TRUE

\* <<f(0), ..., f(n-1)>>
RECURSIVE Tabulate(_, _)
Tabulate(f(_), n) == IF n = 0 THEN <<>> ELSE Append(Tabulate(f, n - 1), f(n - 1))

\* the vector with entry f(i) for agent i
Vec(f(_)) == Tabulate(f, N)

\* the matrix with entry f(i, j) in row i, column j
Mat(f(_, _)) == Tabulate(LAMBDA i : Tabulate(LAMBDA j : f(i, j), N), N)

RECURSIVE SumSeq(_)
SumSeq(s) == IF s = <<>> THEN 0 ELSE Head(s) + SumSeq(Tail(s))

\* np.mean of a vector
mean(v) == SumSeq(v) \div Len(v)

\* np.std of a vector (population standard deviation)
std(v) ==
    With(mean(v), LAMBDA m :
        ISqrt(SumSeq(Tabulate(LAMBDA i : (v[i + 1] - m) * (v[i + 1] - m), Len(v))) \div Len(v)))

At(v, i) == v[i + 1]

At2(m, i, j) == m[i + 1][j + 1]

\* np.ones((n, n))
ones == Mat(LAMBDA i, j : SCALE)

\* np.eye(n)
eye == Mat(LAMBDA i, j : IF i = j THEN SCALE ELSE 0)

\* m.T
T(m) == Mat(LAMBDA i, j : At2(m, j, i))

\* np.sum(m, axis=0, keepdims=True): one total per column
sum_axis0(m) == Vec(LAMBDA j : SumSeq(Vec(LAMBDA i : At2(m, i, j))))

\* np.sum(m, axis=1, keepdims=True): one total per row
sum_axis1(m) == Vec(LAMBDA i : SumSeq(Vec(LAMBDA j : At2(m, i, j))))

\* np.fill_diagonal(copy of m, 0)
fill_diagonal_0(m) == Mat(LAMBDA i, j : IF i = j THEN 0 ELSE At2(m, i, j))

\* m @ v
matvec(m, v) == Vec(LAMBDA i : SumSeq(Vec(LAMBDA j : FMul(At2(m, i, j), At(v, j)))))

\* (v - np.mean(v) + shift) / np.std(v)
standardize(v, shift) ==
    With(mean(v), LAMBDA m :
    With(std(v), LAMBDA s :
        Vec(LAMBDA i : FDiv(At(v, i) - m + shift, s))))

\* ------------------------------------------------------------ state ---
VARIABLES
    started,                  \* reset has run: the instance attributes exist
    agents,                   \* self.agents
    t,                        \* self.t
    prev_gdp, gdp, GDP, one_plus_gdp_growth_rate,
    prev_price_lvl, price_lvl, one_plus_inf_rate,
    PREV_NET_EX, NET_EX,
    eco_observation, eco_reward,
    affinity, delta_affinity,
    one_plus_int_rate, total_demand,
    nom_exchange_rate, real_exchange_rate, FOR_EXP,
    TRADE_COEFF, TRADE_COEFF_STAR, EX, EX_STAR, IM,
    invites, accepts,         \* the sampled matrices of the last step
    rng,                      \* position of numpy's global generator
    call,                     \* the last call and its arguments
    ret                       \* what the last call returned or raised

econ == <<prev_gdp, gdp, GDP, one_plus_gdp_growth_rate, prev_price_lvl,
          price_lvl, one_plus_inf_rate, PREV_NET_EX, NET_EX, eco_observation>>

trade == <<total_demand, nom_exchange_rate, real_exchange_rate, FOR_EXP,
           TRADE_COEFF, TRADE_COEFF_STAR, EX, EX_STAR, IM, eco_reward>>

diplo == <<affinity, delta_affinity, invites, accepts>>

vars == <<started, agents, t, econ, trade, diplo, one_plus_int_rate, rng, call, ret>>

\* ----------------------------------------------- numpy's generator ---
\* np.random is one global generator, seeded once when numpy is imported.
\* The model's generator walks a fixed cycle of raw uniform draws in
\* [0, SCALE); rng is the position of the next draw.
STREAM == <<37, 162, 95, 8, 121>>

Raw(pos, k) == STREAM[((pos - 1 + k) % Len(STREAM)) + 1]

Advance(pos, n) == ((pos - 1 + n) % Len(STREAM)) + 1

\* np.random.uniform(): the k-th draw from position pos
uniform(pos, k) == Raw(pos, k)

\* np.random.randn(): the k-th draw from position pos, in [-1.5, 1.5)
randn(pos, k) == 3 * (Raw(pos, k) - SCALE \div 2)

\* sd * np.random.randn(self.num_agents), drawn from position pos
randn_vec(sd, pos) == Vec(LAMBDA i : FMul(sd, randn(pos, i)))

\* ------------------------------------------------------ observations ---
\* np.vstack((gdp, growth, price_lvl, inflation)).T : one row per agent
vstack_T(g, gr, p, inf) == Vec(LAMBDA i : <<At(g, i), At(gr, i), At(p, i), At(inf, i)>>)

\* np.hstack((eco, aff)) : row i is eco's row i followed by aff's row i
hstack(eco, aff) == Vec(LAMBDA i : At(eco, i) \o At(aff, i))

\* np.roll(m, shift, axis=0) : row k of the result is row (k - shift) mod N
roll(m, shift) == Vec(LAMBDA k : At(m, (k - shift) % N))

RECURSIVE flatten(_)
flatten(m) == IF m = <<>> THEN <<>> ELSE Head(m) \o flatten(Tail(m))

\* .astype(np.float32): every value of the model is an integer multiple of
\* 1/SCALE far below 2^24, which float32 tells apart, so the cast keeps it.
astype_float32(v) == v

\* the observation of the agent at position i of self.agents
observation(eco, aff, i) ==
    With(hstack(eco, aff), LAMBDA m :
    With(roll(m, i), LAMBDA rolled : astype_float32(flatten(rolled))))

\* {agent: ... for i, agent in enumerate(self.agents)}
observations_of(ags, eco, aff) ==
    [a \in {ags[k] : k \in 1 .. Len(ags)} |->
        observation(eco, aff, (CHOOSE k \in 1 .. Len(ags) : ags[k] = a) - 1)]

\* {agent: value for agent in self.agents}
dict_of(ags, value) == [a \in {ags[k] : k \in 1 .. Len(ags)} |-> value]

SEEDS == {"None", "s0"}

\* ------------------------------------------------------------ reset ---
Reset(seed) ==
    LET n_prev_gdp == randn_vec(std_pgdp, rng)
        n_gdp == randn_vec(std_gdp, Advance(rng, N))
        n_prev_price == randn_vec(std_ppl, Advance(rng, 2 * N))
        n_price == randn_vec(std_pl, Advance(rng, 3 * N))
        n_growth == Vec(LAMBDA i : At(n_gdp, i) - At(n_prev_gdp, i))
        n_inf == Vec(LAMBDA i : At(n_price, i) - At(n_prev_price, i))
        n_eco == vstack_T(n_gdp, n_growth, n_price, n_inf)
    IN  /\ started' = TRUE
        /\ agents' = possible_agents
        /\ t' = 0
        /\ prev_gdp' = n_prev_gdp
        /\ gdp' = n_gdp
        /\ GDP' = Vec(LAMBDA i : exp(At(n_gdp, i)))
        /\ one_plus_gdp_growth_rate' = n_growth
        /\ prev_price_lvl' = n_prev_price
        /\ price_lvl' = n_price
        /\ one_plus_inf_rate' = n_inf
        /\ PREV_NET_EX' = Vec(LAMBDA i : exp(At(randn_vec(std_pne, Advance(rng, 4 * N)), i)))
        /\ NET_EX' = Vec(LAMBDA i : exp(At(randn_vec(std_ne, Advance(rng, 5 * N)), i)))
        /\ eco_observation' = n_eco
        /\ affinity' = eye
        /\ delta_affinity' = eye
        /\ rng' = Advance(rng, 6 * N)
        /\ call' = [op |-> "reset", seed |-> seed, actions |-> NoValue]
        /\ ret' = [raised |-> "",
                   observations |-> observations_of(possible_agents, n_eco, eye),
                   rewards |-> NoValue, terminations |-> NoValue,
                   truncations |-> NoValue,
                   infos |-> dict_of(possible_agents, <<>>)]
        /\ UNCHANGED <<trade, invites, accepts, one_plus_int_rate>>

\* ---------------------------------------------------------- actions ---
\* The joint actions the caller may pass: actions[agent] = {'eco': [a],
\* 'pol': [2N preferences]}, here the vector of the agents' records.
EcoFlat(i) == 0

EcoSpread(i) == (2 * i - (N - 1)) * SCALE

\* no preference: uniform invitations, every accept preference 0
PolZero(i) == [k \in 1 .. 2 * N |-> 0]

\* invite the next agent, accept preference -3.0
PolNext(i) ==
    [k \in 1 .. 2 * N |->
        IF k <= N THEN (IF k - 1 = (i + 1) % N THEN 3 * SCALE ELSE 0) ELSE -3 * SCALE]

\* invite oneself first, accept preference +8.0
PolSelf(i) ==
    [k \in 1 .. 2 * N |->
        IF k <= N THEN (IF k - 1 = i THEN 3 * SCALE ELSE 0) ELSE 8 * SCALE]

JointAction(e(_), p(_)) == Vec(LAMBDA i : [eco |-> e(i), pol |-> p(i)])

JOINT_ACTIONS ==
    { JointAction(EcoFlat, PolZero), JointAction(EcoFlat, PolNext),
      JointAction(EcoFlat, PolSelf), JointAction(EcoSpread, PolZero),
      JointAction(EcoSpread, PolNext), JointAction(EcoSpread, PolSelf) }

\* ------------------------------------------------------- diplomacy ---
\* softmax = lambda x : np.exp(x) / np.sum(np.exp(x), axis=0)
softmax(v) ==
    With(Tabulate(LAMBDA i : exp(v[i + 1]), Len(v)), LAMBDA e :
    With(SumSeq(e), LAMBDA total :
        Tabulate(LAMBDA i : FDiv(e[i + 1], total), Len(v))))

\* sigmoid = lambda x : 1 / (1 + np.exp(x))
sigmoid(v) == FDiv(SCALE, SCALE + exp(v))

\* np.random.choice(n, p=p) with the uniform draw u: numpy normalises the
\* cumulative sums by the last one and returns cdf.searchsorted(u, 'right').
choice(p, u) ==
    With(Tabulate(LAMBDA i : SumSeq(SubSeq(p, 1, i + 1)), Len(p)), LAMBDA cdf :
        Cardinality({k \in 1 .. Len(p) : FDiv(cdf[k], cdf[Len(p)]) <= u}))

\* one_hot(invite_choice, depth) without invite[i] = 0
invite_row_keep_self(pol, i, pos) ==
    With(SubSeq(pol, 1, N), LAMBDA invite_pref :
    With(softmax(invite_pref), LAMBDA invite_prob :
    With(choice(invite_prob, uniform(pos, i * (N + 1))), LAMBDA invite_choice :
        Vec(LAMBDA j : IF j = invite_choice THEN 1 ELSE 0))))

\* one_hot(invite_choice, depth) followed by invite[i] = 0
invite_row(pol, i, pos) ==
    With(SubSeq(pol, 1, N), LAMBDA invite_pref :
    With(softmax(invite_pref), LAMBDA invite_prob :
    With(choice(invite_prob, uniform(pos, i * (N + 1))), LAMBDA invite_choice :
        Vec(LAMBDA j : IF j = invite_choice /\ j # i THEN 1 ELSE 0))))

\* np.random.uniform(size=n) < accept_prob followed by accept[i] = 0
accept_row(pol, i, pos) ==
    With(SubSeq(pol, N + 1, 2 * N), LAMBDA accept_pref :
        Vec(LAMBDA j : IF j # i /\ uniform(pos, i * (N + 1) + 1 + j) < sigmoid(At(accept_pref, j))
                       THEN 1 ELSE 0))

\* self.delta * (accepts.T * invites)
delta_of_one_sided(inv, acc) ==
    Mat(LAMBDA i, j : delta * At2(acc, j, i) * At2(inv, i, j))

\* self.delta * 0.5 * (accepts.T * invites - invites.T * accepts)
delta_of_signed(inv, acc) ==
    Mat(LAMBDA i, j :
        (delta * (At2(acc, j, i) * At2(inv, i, j) - At2(inv, j, i) * At2(acc, i, j))) \div 2)

\* self.delta * 0.5 * (accepts.T * invites + invites.T * accepts)
delta_of(inv, acc) ==
    Mat(LAMBDA i, j :
        (delta * (At2(acc, j, i) * At2(inv, i, j) + At2(inv, j, i) * At2(acc, i, j))) \div 2)

\* ------------------------------------------------------------- step ---
\* The instance is constructed with render_mode='human' (line 286 and
\* APPO_combined_env.py line 63); render then only prints.
render_mode == "human"

\* render(mode) raises NotImplementedError for any other mode
render_raises(mode) == mode \notin {"human", "array"}

\* numpy broadcasting of two vectors of lengths m and n
broadcastable(m, n) == m = n \/ m = 1 \/ n = 1

\* 0.20 / (1 + np.exp(-a))
rate_of(a) == FDiv(RATE_MAX, SCALE + exp(-a))

\* NUM = np.exp(rer).T; DEN = np.sum(NUM, axis=0, keepdims=True); NUM / DEN
trade_coeff(rer) ==
    With(T(Mat(LAMBDA i, j : exp(At2(rer, i, j)))), LAMBDA NUM :
    With(sum_axis0(NUM), LAMBDA DEN :
        Mat(LAMBDA i, j : FDiv(At2(NUM, i, j), At(DEN, j)))))

\* NUM_STAR / DEN_STAR with DEN_STAR = np.sum(NUM_STAR, axis=0, keepdims=True)
trade_coeff_star_axis0(rer) ==
    With(Mat(LAMBDA i, j : exp(At2(rer, i, j))), LAMBDA NUM_STAR :
    With(sum_axis0(NUM_STAR), LAMBDA DEN_STAR :
        Mat(LAMBDA i, j : FDiv(At2(NUM_STAR, i, j), At(DEN_STAR, j)))))

\* NUM_STAR = np.exp(rer); DEN_STAR = np.sum(NUM_STAR, axis=1, keepdims=True);
\* NUM_STAR / DEN_STAR
trade_coeff_star(rer) ==
    With(Mat(LAMBDA i, j : exp(At2(rer, i, j))), LAMBDA NUM_STAR :
    With(sum_axis1(NUM_STAR), LAMBDA DEN_STAR :
        Mat(LAMBDA i, j : FDiv(At2(NUM_STAR, i, j), At(DEN_STAR, i)))))

\* TEMP = np.copy(TRADE_COEFF); np.fill_diagonal(TEMP, 0); TEMP.T @ FOR_EXP
exports(tc, for_exp) ==
    With(fill_diagonal_0(tc), LAMBDA TEMP :
    With(T(TEMP), LAMBDA TEMP_T : matvec(TEMP_T, for_exp)))

\* TEMP_STAR = np.copy(TRADE_COEFF_STAR); np.fill_diagonal(TEMP_STAR, 0);
\* TEMP_STAR @ FOR_EXP
exports_star(tcs, for_exp) ==
    With(fill_diagonal_0(tcs), LAMBDA TEMP_STAR : matvec(TEMP_STAR, for_exp))

\* np.sum(TEMP, axis=1) * FOR_EXP
imports(tc, for_exp) ==
    With(fill_diagonal_0(tc), LAMBDA TEMP :
    With(sum_axis1(TEMP), LAMBDA total :
        Vec(LAMBDA i : FMul(At(total, i), At(for_exp, i)))))

\* np.square
square(v) == FMul(v, v)

\* rewards = self.eco_reward; dict(zip(self.agents, list(rewards)))
rewards_of_eco(ags, aff, rew) ==
    [a \in {ags[k] : k \in 1 .. Len(ags)} |->
        At(rew, (CHOOSE k \in 1 .. Len(ags) : ags[k] = a) - 1)]

\* rewards = self.affinity @ self.eco_reward; dict(zip(self.agents, list(rewards)))
rewards_of(ags, aff, rew) ==
    With(matvec(aff, rew), LAMBDA rewards :
        [a \in {ags[k] : k \in 1 .. Len(ags)} |->
            At(rewards, (CHOOSE k \in 1 .. Len(ags) : ags[k] = a) - 1)])

\* if self.t >= 100
episode_over_late(time) == time > HORIZON

episode_over(time) == time >= HORIZON

\* all(d.values())
all_values(d) == \A a \in DOMAIN d : d[a]

Raised(name) ==
    [raised |-> name, observations |-> NoValue, rewards |-> NoValue,
     terminations |-> NoValue, truncations |-> NoValue, infos |-> NoValue]

\* lines 188-195 when line 195 raises: self.gdp is missing before the first
\* reset (AttributeError), or gdp and the empty rate vector of an episode
\* that is over do not broadcast (ValueError).
StepRaises == ~started \/ ~broadcastable(N, Len(agents))

StepError(acts) ==
    /\ one_plus_int_rate' = Tabulate(LAMBDA i : rate_of(At(acts, At(agents, i)).eco), Len(agents))
    /\ ret' = Raised(IF ~started THEN "AttributeError" ELSE "ValueError")
    /\ call' = [op |-> "step", seed |-> "None", actions |-> acts]
    /\ UNCHANGED <<started, agents, t, econ, trade, diplo, rng>>

\* lines 215-278: the part of step after the export assertion.  It reads
\* the attributes that lines 194-213 have just assigned (primed).
StepRest(acts) ==
    LET pol_action(i) == At(acts, At(agents, i)).pol
    IN  /\ IM' = imports(TRADE_COEFF', FOR_EXP')
        /\ PREV_NET_EX' = NET_EX
        /\ NET_EX' = Vec(LAMBDA i : At(EX', i) - At(IM', i))
        /\ prev_price_lvl' = price_lvl
        /\ price_lvl' =
               With(Vec(LAMBDA i :
                        log(exp(At(price_lvl, i)))
                        + log(Max(1, SCALE + FDiv(At(NET_EX', i), exp(At(total_demand', i)))))
                        - At(one_plus_int_rate', i)),
                    LAMBDA p : standardize(p, 0))
        /\ one_plus_inf_rate' = Vec(LAMBDA i : At(price_lvl', i) - At(prev_price_lvl', i))
        /\ prev_gdp' = gdp
        /\ GDP' = Vec(LAMBDA i : exp(At(total_demand', i)) + At(NET_EX', i))
        /\ gdp' = With(Vec(LAMBDA i : log(At(GDP', i))),
                        LAMBDA g : standardize(g, constant * t))
        /\ one_plus_gdp_growth_rate' = Vec(LAMBDA i : At(gdp', i) - At(prev_gdp', i))
        /\ eco_observation' =
               vstack_T(gdp', one_plus_gdp_growth_rate', price_lvl', one_plus_inf_rate')
        /\ eco_reward' =
               Vec(LAMBDA i :
                   (exp(At(one_plus_gdp_growth_rate', i)) - SCALE)
                   - kappa * square(exp(At(one_plus_inf_rate', i)) - SCALE - inf_target))
        /\ invites' = Vec(LAMBDA i : invite_row(pol_action(i), i, rng))
        /\ accepts' = Vec(LAMBDA i : accept_row(pol_action(i), i, rng))
        /\ delta_affinity' = delta_of(invites', accepts')
        /\ affinity' = Mat(LAMBDA i, j : At2(affinity, i, j) + At2(delta_affinity', i, j))
        /\ rng' = Advance(rng, N * (N + 1))
        /\ t' = t + 1
        /\ IF render_raises(render_mode)
           THEN /\ ret' = Raised("NotImplementedError")
                /\ agents' = agents
           ELSE /\ ret' = [raised |-> "",
                           observations |-> observations_of(agents, eco_observation', affinity'),
                           rewards |-> rewards_of(agents, affinity', eco_reward'),
                           terminations |-> dict_of(agents, episode_over(t')),
                           truncations |-> dict_of(agents, episode_over(t')),
                           infos |-> dict_of(agents, <<>>)]
                /\ agents' = IF all_values(ret'.terminations) \/ all_values(ret'.truncations)
                             THEN <<>> ELSE agents

\* lines 194-214, then the rest.  self.num_agents is len(self.agents),
\* which is N whenever this part runs.
StepBody(acts) ==
    LET price_diff(i, j) == At(price_lvl, i) - At(price_lvl, j)
        int_rate_diff(i, j) == At(one_plus_int_rate', i) - At(one_plus_int_rate', j)
    IN  /\ one_plus_int_rate' = Vec(LAMBDA i : rate_of(At(acts, At(agents, i)).eco))
        /\ total_demand' = Vec(LAMBDA i : At(gdp, i) - At(one_plus_int_rate', i))
        /\ nom_exchange_rate' =
               Mat(LAMBDA i, j : price_diff(i, j) - ex_int_degree * int_rate_diff(i, j))
        /\ real_exchange_rate' = Mat(LAMBDA i, j : -ex_int_degree * int_rate_diff(i, j))
        /\ FOR_EXP' =
               Vec(LAMBDA i : FMul(SCALE - tau_values[i + 1], exp(At(total_demand', i))))
        /\ TRADE_COEFF' = trade_coeff(real_exchange_rate')
        /\ EX' = exports(TRADE_COEFF', FOR_EXP')
        /\ TRADE_COEFF_STAR' = trade_coeff_star(real_exchange_rate')
        /\ EX_STAR' = exports_star(TRADE_COEFF_STAR', FOR_EXP')
        /\ call' = [op |-> "step", seed |-> "None", actions |-> acts]
        /\ started' = started
        /\ IF EX' # EX_STAR'
           THEN \* line 214: assert (self.EX == self.EX_STAR).all()
                /\ ret' = Raised("AssertionError")
                /\ UNCHANGED <<agents, t, econ, IM, eco_reward, diplo, rng>>
           ELSE StepRest(acts)

\* The instance after __init__: agents is the class attribute (lines 50-51),
\* none of the attributes reset assigns exists yet.
Init ==
    /\ started = FALSE
    /\ agents = possible_agents
    /\ t = NoValue
    /\ prev_gdp = NoValue /\ gdp = NoValue /\ GDP = NoValue
    /\ one_plus_gdp_growth_rate = NoValue
    /\ prev_price_lvl = NoValue /\ price_lvl = NoValue
    /\ one_plus_inf_rate = NoValue
    /\ PREV_NET_EX = NoValue /\ NET_EX = NoValue
    /\ eco_observation = NoValue /\ eco_reward = NoValue
    /\ affinity = NoValue /\ delta_affinity = NoValue
    /\ one_plus_int_rate = NoValue /\ total_demand = NoValue
    /\ nom_exchange_rate = NoValue /\ real_exchange_rate = NoValue
    /\ FOR_EXP = NoValue
    /\ TRADE_COEFF = NoValue /\ TRADE_COEFF_STAR = NoValue
    /\ EX = NoValue /\ EX_STAR = NoValue /\ IM = NoValue
    /\ invites = NoValue /\ accepts = NoValue
    /\ rng \in 1 .. Len(STREAM)
    /\ call = [op |-> "init", seed |-> "None", actions |-> NoValue]
    /\ ret = [raised |-> "", observations |-> NoValue, rewards |-> NoValue,
              terminations |-> NoValue, truncations |-> NoValue, infos |-> NoValue]

\* step that returns without an error where lines 188-195 raise
StepSilent(acts) ==
    IF StepRaises
    THEN /\ ret' = [raised |-> "", observations |-> <<>>, rewards |-> <<>>,
                    terminations |-> <<>>, truncations |-> <<>>, infos |-> <<>>]
         /\ call' = [op |-> "step", seed |-> "None", actions |-> acts]
         /\ UNCHANGED <<started, agents, t, econ, trade, diplo, one_plus_int_rate, rng>>
    ELSE StepBody(acts)

\* step(actions): lines 186-278
Step(acts) == IF StepRaises THEN StepError(acts) ELSE StepBody(acts)

\* The caller.  It chooses its joint action freely in the first FreeSteps
\* steps of an episode and repeats its last joint action afterwards; it
\* resets before the first episode, within the first FreeSteps steps of an
\* episode, or when the episode is over.
CallerMayStep(acts) ==
    IF ~started THEN TRUE
    ELSE IF agents = <<>> THEN TRUE
    ELSE IF t < FreeSteps THEN TRUE
    ELSE acts = call.actions

CallerMayReset ==
    IF ~started THEN TRUE
    ELSE IF agents = <<>> THEN TRUE
    ELSE t <= FreeSteps

Next ==
    \/ \E seed \in SEEDS : CallerMayReset /\ Reset(seed)
    \/ \E acts \in JOINT_ACTIONS : CallerMayStep(acts) /\ Step(acts)

Spec == Init /\ [][Next]_vars

\* ------------------------------------------------------ properties ---
AgentSet == {possible_agents[k] : k \in 1 .. N}

\* the last call was a step that returned normally
StepReturned == call.op = "step" /\ ret.raised = ""

\* the last call was a reset
ResetReturned == call.op = "reset" /\ ret.raised = ""

\* C1: after the k-th step of an episode (self.t = k) the returned
\* terminations and truncations are false for all N agents and the active
\* agents are all N agents while k < 100, and they are true for all N agents
\* and no agent is active when k = 100; the active agents are always all or
\* none.
C1_Horizon ==
    /\ agents \in {possible_agents, <<>>}
    /\ StepReturned =>
           /\ t \in 1 .. HORIZON
           /\ DOMAIN ret.terminations = AgentSet
           /\ DOMAIN ret.truncations = AgentSet
           /\ \A a \in AgentSet :
                  /\ ret.terminations[a] = (t = HORIZON)
                  /\ ret.truncations[a] = (t = HORIZON)
           /\ agents = IF t = HORIZON THEN <<>> ELSE possible_agents

C1_Witness ==
    /\ StepReturned
    /\ t = HORIZON
    /\ agents = <<>>
    /\ \A a \in AgentSet : ret.terminations[a] /\ ret.truncations[a]

\* C2: a step called before the first reset, or after the episode is over
\* and before the next reset, raises an error; it does not advance the
\* episode and does not return normally.
C2_InvalidStepRaises ==
    [][(call'.op = "step" /\ (~started \/ agents = <<>>))
           => /\ ret'.raised # ""
              /\ UNCHANGED <<started, agents, t, econ, diplo, rng>>]_vars

C2_Witness ==
    /\ call.op = "step"
    /\ started
    /\ agents = <<>>
    /\ t = HORIZON
    /\ ret.raised = "ValueError"
\* the rows of m in the order i, i+1, ..., N-1, 0, ..., i-1
OwnRowFirst(m, i) == Vec(LAMBDA k : At(m, (i + k) % N))

\* C3: the observation returned to agent i by reset and by step is the
\* matrix [eco_observation | affinity] rotated so that row i comes first
\* (rows i, i+1, ..., i-1), flattened.
C3_OwnRowFirst ==
    (ResetReturned \/ StepReturned) =>
        \A a \in DOMAIN ret.observations :
            ret.observations[a] = flatten(OwnRowFirst(hstack(eco_observation, affinity), a))

\* the affinity part of row k of a flattened observation
AffinityPart(obs, k) == SubSeq(obs, k * (N + 4) + 5, (k + 1) * (N + 4))

\* C4: the reward a step returns to agent i is sum_j affinity[i,j] *
\* eco_reward[j] with the eco_reward of that step and the affinity after
\* that step's update, which is the affinity the returned observations hold.
C4_Reward ==
    StepReturned =>
        /\ DOMAIN ret.rewards = AgentSet
        /\ \A a \in AgentSet :
               /\ ret.rewards[a] =
                      SumSeq(Vec(LAMBDA j : FMul(At2(affinity, a, j), At(eco_reward, j))))
               /\ {AffinityPart(ret.observations[a], k) : k \in Idx}
                      = {At(affinity, i) : i \in Idx}

C4_Witness ==
    /\ StepReturned
    /\ \E i, j \in Idx : i # j /\ At2(affinity, i, j) > 0 /\ At(eco_reward, j) # 0
    /\ \E a \in AgentSet : ret.rewards[a] # At(eco_reward, a)

\* C5: two resets with the same seed return the same initial observations.
C5_SeedDeterminism ==
    [][(/\ call.op = "reset" /\ call'.op = "reset"
        /\ call.seed # "None" /\ call'.seed = call.seed)
           => ret'.observations = ret.observations]_vars

\* C6: whatever came before, a reset leaves t = 0, all N agents active and
\* the identity as affinity, and returns to every agent an observation of
\* length N * (N + 4) and an empty info.
C6_Reset ==
    call.op = "reset" =>
        /\ t = 0
        /\ agents = possible_agents
        /\ \A i, j \in Idx : At2(affinity, i, j) = IF i = j THEN SCALE ELSE 0
        /\ DOMAIN ret.observations = AgentSet
        /\ DOMAIN ret.infos = AgentSet
        /\ \A a \in AgentSet :
               /\ Len(ret.observations[a]) = N * (N + 4)
               /\ ret.infos[a] = <<>>

\* a reset after a step that had raised an affinity entry
C6_Witness ==
    /\ call.op = "reset"
    /\ invites # NoValue
    /\ \E i, j \in Idx : At2(invites, i, j) = 1 /\ At2(accepts, j, i) = 1
    /\ affinity = eye

\* C7: every affinity entry is non-negative, and no call but reset makes
\* an affinity entry smaller.
C7_AffinityMonotone ==
    [][affinity' # NoValue =>
           /\ \A i, j \in Idx : At2(affinity', i, j) >= 0
           /\ (affinity # NoValue /\ call'.op # "reset") =>
                  \A i, j \in Idx : At2(affinity', i, j) >= At2(affinity, i, j)]_vars

\* an entry has grown in two different steps of the episode
C7_Witness ==
    /\ StepReturned
    /\ \E i, j \in Idx :
           /\ i # j
           /\ At2(delta_affinity, i, j) > 0
           /\ At2(affinity, i, j) > At2(delta_affinity, i, j)

Abs(x) == IF x < 0 THEN -x ELSE x

\* C8: with the diagonal set to zero, the trade coefficients of every agent
\* sum to 1 along the normalised axis (the columns of TRADE_COEFF, the rows
\* of TRADE_COEFF_STAR), up to one rounding unit per entry.
C8_PartnersSumToOne ==
    TRADE_COEFF # NoValue =>
        \A a \in Idx :
            /\ Abs(SumSeq(Vec(LAMBDA i : IF i = a THEN 0 ELSE At2(TRADE_COEFF, i, a))) - SCALE)
                   <= N
            /\ Abs(SumSeq(Vec(LAMBDA j : IF j = a THEN 0 ELSE At2(TRADE_COEFF_STAR, a, j)))
                       - SCALE) <= N

\* C9: the two export vectors are equal after every step, and step never
\* raises the AssertionError of line 214.
C9_ExportsAgree ==
    /\ EX = EX_STAR
    /\ ret.raised # "AssertionError"

\* a step with different interest rates, hence non-trivial exchange rates
C9_Witness ==
    /\ StepReturned
    /\ \E i, j \in Idx : At2(real_exchange_rate, i, j) # 0
    /\ \E i, j \in Idx : At(EX, i) # At(EX, j)
    /\ EX = EX_STAR

\* C10: in every step the sampled matrices have entries 0 or 1 and a zero
\* diagonal, every agent invites at most one agent, delta_affinity[i,j] =
\* (delta/2) * (accepts[j,i] * invites[i,j] + invites[j,i] * accepts[i,j]),
\* which is 0, delta/2 or delta, and affinity grows by delta_affinity.
C10_Delta ==
    [][(call'.op = "step" /\ ret'.raised = "") =>
           \A i, j \in Idx :
               /\ At2(invites', i, j) \in {0, 1}
               /\ At2(accepts', i, j) \in {0, 1}
               /\ At2(invites', i, i) = 0
               /\ At2(accepts', i, i) = 0
               /\ SumSeq(At(invites', i)) <= 1
               /\ 2 * At2(delta_affinity', i, j) =
                      delta * (At2(accepts', j, i) * At2(invites', i, j)
                               + At2(invites', j, i) * At2(accepts', i, j))
               /\ 2 * At2(delta_affinity', i, j) \in {0, delta, 2 * delta}
               /\ At2(affinity', i, j) = At2(affinity, i, j) + At2(delta_affinity', i, j)]_vars

\* both directions of a pair matched in one step
C10_Witness ==
    /\ StepReturned
    /\ \E i, j \in Idx : i # j /\ At2(delta_affinity, i, j) = delta

\* the logistic function 1 / (1 + e^(-p))
Logistic(p) == FDiv(SCALE, SCALE + exp(-p))

\* the accept preferences the caller may pass
AcceptPrefs ==
    {At(acts, i).pol[N + 1 + j] : acts \in JOINT_ACTIONS, i \in Idx, j \in Idx}

\* C11: the probability with which agent i accepts agent j is
\* 1 / (1 + exp(-p)) for i's accept preference p for j: it is 1/2 for p = 0,
\* a larger preference never gives a smaller probability, and in every
\* step agent i accepts j # i exactly when its uniform draw for j is below
\* that probability.
C11_AcceptSigmoid ==
    [][(call'.op = "step" /\ ret'.raised = "") =>
           /\ \A p \in AcceptPrefs :
                  /\ sigmoid(p) = Logistic(p)
                  /\ p = 0 => sigmoid(p) = SCALE \div 2
                  /\ \A q \in AcceptPrefs : p <= q => sigmoid(p) <= sigmoid(q)
           /\ \A i, j \in Idx :
                  i # j =>
                      (At2(accepts', i, j) = 1
                          <=> uniform(rng, i * (N + 1) + 1 + j)
                                  < Logistic(At(call'.actions, i).pol[N + 1 + j]))]_vars

\* C12: once reset has run, affinity is symmetric and its diagonal is 1.
C12_Symmetric ==
    affinity # NoValue =>
        \A i, j \in Idx :
            /\ At2(affinity, i, j) = At2(affinity, j, i)
            /\ At2(affinity, i, i) = SCALE

\* a step in which an agent sampled itself as invite target (its row of
\* invites is zero after invite[i] = 0) and another pair matched
C12_Witness ==
    /\ StepReturned
    /\ \E i \in Idx : SumSeq(At(invites, i)) = 0
    /\ \E i, j \in Idx : i # j /\ At2(delta_affinity, i, j) > 0
    /\ \E i, j \in Idx : i # j /\ At2(affinity, i, j) > 0 /\ At2(affinity, i, j) = At2(affinity, j, i)

====
